---- MODULE Spec2Model ----
(***************************************************************************)
(* A model of the poisson-ticker crate: the latency map and its windowed   *)
(* histograms (src/src/histogram.rs), the raw-sample ManualHistogram, and  *)
(* the SummaryHistogram / SummaryStats report (src/src/summary_stats.rs),  *)
(* the SpinTicker and TimerTicker streams (src/src/lib.rs) and the request *)
(* schedule (src/src/requests.rs).                                         *)
(*                                                                         *)
(* Instants and durations are natural numbers of nanoseconds.  An          *)
(* Option<T> is the empty sequence (None) or a one-element sequence        *)
(* (Some(x)).  Every fallible call returns a record whose status is "Ok",  *)
(* "Err" (a returned eyre error) or "Panic" (the thread unwinds).          *)
(***************************************************************************)
EXTENDS Integers, Sequences, FiniteSets, TLC

VARIABLES
    map,        \* LatencyMap.map : request id -> (sent, Option<received>)
    ret,        \* what the last call on the latency map returned
    hist,       \* a ManualHistogram
    hret,       \* what the last call on the ManualHistogram returned
    summary,    \* a SummaryHistogram
    sret,       \* the last SummaryHistogram call and what it returned
    args,       \* the arguments of SummaryStats::new
    stats,      \* what SummaryStats::new returned
    ticker,     \* a TimerTicker
    tret,       \* what the last poll_next of the TimerTicker did and returned
    spin,       \* a SpinTicker
    now,        \* the wall clock (Instant::now()), in nanoseconds
    lateness,   \* by how much the SpinTicker's ticks have resolved late, in all
    pret,       \* what the last poll_next of the SpinTicker did and returned
    rargs,      \* the arguments of RequestSchedule::new
    schedule    \* what RequestSchedule::new returned

vars == <<map, ret, hist, hret, summary, sret, args, stats,
          ticker, tret, spin, now, lateness, pret, rargs, schedule>>

(***************************************************************************)
(* Bounds of the model.                                                    *)
(***************************************************************************)
MaxId == 2
MaxRecordId == 1
MaxTime == 1
MaxLatency == 3
MaxCount == 3
MaxSteps == 2
MaxPrecision == 2
MaxSeconds == 1
MaxRateHalves == 3
UsizeBits == 8
MaxInterval == 3
MaxMean == 4
MaxClock == 4
MaxRatePps == 3

\* Request ids of the windowed analysis, and those record is called with.
Ids == 0..MaxId
RecordIds == 0..MaxRecordId
Time == 0..MaxTime
\* Latency samples (u64 nanoseconds) handed to the histograms.
Latencies == 0..MaxLatency
\* usize::MAX of the model's usize, which is UsizeBits wide.
UsizeMax == 2^UsizeBits - 1

(***************************************************************************)
(* Option, Result and the std::time::Instant arithmetic the code uses.     *)
(***************************************************************************)
None == <<>>
Some(x) == <<x>>
is_none(o) == o = <<>>
unwrap(o) == o[1]

OptTime == {None} \cup {Some(t) : t \in Time}

NoCall == [status |-> "NoCall"]
Ok(v) == [status |-> "Ok", value |-> v]
Err(msg) == [status |-> "Err", msg |-> msg]
Panic(msg) == [status |-> "Panic", msg |-> msg]

\* self.checked_duration_since(earlier): None when earlier is later than self.
checked_duration_since(self, earlier) ==
    IF self >= earlier THEN Some(self - earlier) ELSE None

\* self.duration_since(earlier).  When earlier is later than self the
\* standard library panics (Rust before 1.60) or saturates to zero (1.60 and
\* later); `saturates` is the outcome the build produces.
duration_since(self, earlier, saturates) ==
    IF self >= earlier THEN Ok(self - earlier)
    ELSE IF saturates THEN Ok(0)
    ELSE Panic("supplied instant is later than self")

\* Duration::as_secs_f64: the duration in seconds, kept as an exact fraction.
as_secs_f64(nanos) == [num |-> nanos, den |-> 1000000000]

(***************************************************************************)
(* ManualHistogram (src/src/histogram.rs).                                 *)
(***************************************************************************)
ManualHistogram_new(num_values) ==
    [current_count |-> 0,
     latencies |-> [i \in 1..num_values |-> 0],
     sorted_latencies |-> <<>>,
     is_sorted |-> FALSE]

\* new_from_vec that also fills the sorted copy with the samples given.
ManualHistogram_new_from_vec_filled(latencies) ==
    [current_count |-> Len(latencies),
     latencies |-> latencies,
     sorted_latencies |-> latencies,
     is_sorted |-> FALSE]

ManualHistogram_new_from_vec(latencies) ==
    [current_count |-> Len(latencies),
     latencies |-> latencies,
     sorted_latencies |-> <<>>,
     is_sorted |-> FALSE]

ManualHistogram_len(h) == h.current_count

latencies_vec(h) == SubSeq(h.latencies, 1, h.current_count)

\* record that always pushes, ignoring the preallocated slots.
ManualHistogram_record_push(h, val) ==
    [h EXCEPT
        !.latencies = Append(h.latencies, val),
        !.current_count = h.current_count + 1]

ManualHistogram_record(h, val) ==
    [h EXCEPT
        !.latencies =
            IF h.current_count = Len(h.latencies)
            THEN Append(h.latencies, val)
            ELSE [h.latencies EXCEPT ![h.current_count + 1] = val],
        !.current_count = h.current_count + 1]

\* Vec<u64>::sort: ascending.
sort(v) == SortSeq(v, LAMBDA a, b : a < b)

ManualHistogram_sort(h) ==
    [h EXCEPT
        !.sorted_latencies = sort(latencies_vec(h)),
        !.is_sorted = TRUE]

\* (len as f64 * quantile) as usize, for a quantile num/den >= 0: the product
\* truncated towards zero.
quantile_index(len, quantile) == (len * quantile.num) \div quantile.den

ManualHistogram_value_at_quantile(h, quantile) ==
    IF Len(h.sorted_latencies) = 0
    THEN Err("Cannot run value_at_quantile until sort() has been called.")
    ELSE
        LET index == quantile_index(Len(h.sorted_latencies), quantile)
        IN  IF index >= Len(h.sorted_latencies)
            THEN Panic("index out of bounds")
            ELSE Ok(h.sorted_latencies[index + 1])

RECURSIVE sum(_)
sum(v) == IF v = <<>> THEN 0 ELSE Head(v) + sum(Tail(v))

\* mean: sum / len as f64, kept as an exact fraction.
ManualHistogram_mean(h) ==
    IF Len(h.sorted_latencies) = 0
    THEN Err("Cannot run value_at_quantile until sort() has been called.")
    ELSE Ok([num |-> sum(h.sorted_latencies), den |-> Len(h.sorted_latencies)])

ManualHistogram_max(h) ==
    IF Len(h.sorted_latencies) = 0
    THEN Err("Cannot run value_at_quantile until sort() has been called.")
    ELSE Ok(h.sorted_latencies[Len(h.sorted_latencies)])

ManualHistogram_min(h) ==
    IF Len(h.sorted_latencies) = 0
    THEN Err("Cannot run value_at_quantile until sort() has been called.")
    ELSE Ok(h.sorted_latencies[1])

(***************************************************************************)
(* LatencyMap (src/src/histogram.rs).                                      *)
(***************************************************************************)
BTreeMap_insert(m, k, v) ==
    [x \in (DOMAIN m) \cup {k} |-> IF x = k THEN v ELSE m[x]]

LatencyMap_new == <<>>

\* The HashMap<usize, Instant> values with keys in `ids`.
HashMaps(ids) == UNION {[S -> Time] : S \in SUBSET ids}

from_sent_and_recv_times(sent_times, recv_times) ==
    [id \in DOMAIN sent_times |->
        IF id \in DOMAIN recv_times
        THEN [sent |-> sent_times[id], recv |-> Some(recv_times[id])]
        ELSE [sent |-> sent_times[id], recv |-> None]]

\* LatencyMap::record: the map afterwards and the Result<()> returned.
LatencyMap_record_swapped(m, request_id, start, end) ==
    IF ~is_none(end) /\ is_none(checked_duration_since(start, unwrap(end)))
    THEN [map |-> m, ret |-> Err("End time is before start time")]
    ELSE [map |-> BTreeMap_insert(m, request_id, [sent |-> start, recv |-> end]),
          ret |-> Ok(<<>>)]

LatencyMap_record(m, request_id, start, end) ==
    IF ~is_none(end) /\ is_none(checked_duration_since(unwrap(end), start))
    THEN [map |-> m, ret |-> Err("End time is before start time")]
    ELSE [map |-> BTreeMap_insert(m, request_id, [sent |-> start, recv |-> end]),
          ret |-> Ok(<<>>)]

LatencyMap_get(m, request_id) ==
    IF request_id \in DOMAIN m THEN Some(m[request_id]) ELSE None

LatencyMap_len(m) == Cardinality(DOMAIN m)

\* The ids a `for id in start_id..=end_id` would visit.
RangeInclusive(start_id, end_id) ==
    [i \in 1..(end_id - start_id + 1) |-> start_id + i - 1]

\* The ids `for id in start_id..end_id` visits, in order: end_id is excluded.
Range(start_id, end_id) ==
    [i \in 1..(end_id - start_id) |-> start_id + i - 1]

\* The id-window loop of histogram_from_id_range (use_time_window = false)
\* over the ids still to visit: the histogram and max_end_time after the
\* loop, or the error or panic that ends it.
RECURSIVE id_window_loop(_, _, _, _, _, _)
id_window_loop(m, ids, start_time, histogram, max_end_time, saturates) ==
    IF ids = <<>>
    THEN Ok([histogram |-> histogram, max_end_time |-> max_end_time])
    ELSE LET id == Head(ids) IN
    IF id \notin DOMAIN m
    THEN Err("ID not found in map")
    ELSE IF is_none(m[id].recv)
    THEN Err("ID has no recv time")
    ELSE
        LET send_time == m[id].sent
            recv_time == unwrap(m[id].recv)
            rtt == duration_since(recv_time, send_time, saturates)
        IN  IF rtt.status = "Panic"
            THEN rtt
            ELSE IF is_none(checked_duration_since(recv_time, start_time))
            THEN Err("recv_time is before send time of first id")
            ELSE
                LET since_start == recv_time - start_time
                    new_max ==
                        IF is_none(max_end_time)
                        THEN Some(<<recv_time, since_start>>)
                        ELSE IF since_start > unwrap(max_end_time)[2]
                        THEN Some(<<recv_time, since_start>>)
                        ELSE max_end_time
                IN  id_window_loop(m, Tail(ids), start_time,
                                   ManualHistogram_record(histogram, rtt.value),
                                   new_max, saturates)

\* A receive time after the send time of end_id is outside the window.
within_window_strict(last_sent_time, recv_time) ==
    last_sent_time > recv_time

\* "if receive time is within the sent time, count it"
within_window(last_sent_time, recv_time) ==
    ~is_none(checked_duration_since(last_sent_time, recv_time))

\* The time-window loop (use_time_window = true) over the ids still to visit.
RECURSIVE time_window_loop(_, _, _, _, _, _)
time_window_loop(m, ids, last_sent_time, histogram, num_received, saturates) ==
    IF ids = <<>>
    THEN Ok([histogram |-> histogram, num_received |-> num_received])
    ELSE LET id == Head(ids) IN
    IF id \notin DOMAIN m
    THEN Err("ID not found in map")
    ELSE IF is_none(m[id].recv)
    THEN time_window_loop(m, Tail(ids), last_sent_time,
                          histogram, num_received, saturates)
    ELSE
        LET send_time == m[id].sent
            recv_time == unwrap(m[id].recv)
        IN  IF ~within_window(last_sent_time, recv_time)
            THEN time_window_loop(m, Tail(ids), last_sent_time,
                                  histogram, num_received, saturates)
            ELSE
                LET rtt == duration_since(recv_time, send_time, saturates)
                IN  IF rtt.status = "Panic"
                    THEN rtt
                    ELSE time_window_loop(m, Tail(ids), last_sent_time,
                                          ManualHistogram_record(histogram, rtt.value),
                                          num_received + 1, saturates)

\* The value of a successful histogram_from_id_range.
RangeStats(histogram, num_sent, num_received, sent_time, received_time) ==
    Ok([histogram |-> histogram,
        num_sent |-> num_sent,
        num_received |-> num_received,
        sent_time |-> sent_time,
        received_time |-> received_time])

histogram_from_id_range(m, start_id, end_id, use_time_window, saturates) ==
    IF start_id >= end_id
    THEN Err("start_id must be less than end_id")
    ELSE IF start_id \notin DOMAIN m
    THEN Err("start_id not found in map")
    ELSE IF end_id \notin DOMAIN m
    THEN Err("end_id not found in map")
    ELSE
        LET histogram == ManualHistogram_new(end_id - start_id)
            start_time == m[start_id].sent
            last_sent_time == m[end_id].sent
        IN  IF is_none(checked_duration_since(last_sent_time, start_time))
            THEN Err("End time is before start time")
            ELSE IF ~use_time_window
            THEN
                LET loop == id_window_loop(m, Range(start_id, end_id), start_time,
                                           histogram, None, saturates)
                IN  IF loop.status # "Ok"
                    THEN loop
                    ELSE
                        LET num_sent == end_id - start_id
                            num_received == ManualHistogram_len(loop.value.histogram)
                        IN  IF num_received # end_id - start_id
                            THEN Err("Histogram length does not match expected")
                            ELSE RangeStats(
                                    loop.value.histogram, num_sent, num_received,
                                    as_secs_f64(last_sent_time - start_time),
                                    as_secs_f64(unwrap(loop.value.max_end_time)[2]))
            ELSE
                LET num_sent == end_id - start_id + 1
                    loop == time_window_loop(m, Range(start_id, end_id), last_sent_time,
                                             histogram, 0, saturates)
                IN  IF loop.status # "Ok"
                    THEN loop
                    ELSE RangeStats(
                            loop.value.histogram, num_sent, loop.value.num_received,
                            as_secs_f64(last_sent_time - start_time),
                            as_secs_f64(last_sent_time - start_time))

(***************************************************************************)
(* SummaryHistogram and SummaryStats (src/src/summary_stats.rs).           *)
(***************************************************************************)
SummaryHistogram_default == [precision |-> None, map |-> <<>>, count |-> 0]

\* *self.map.entry(bucket).or_insert(0) += 1
entry_increment(m, bucket) ==
    [b \in (DOMAIN m) \cup {bucket} |->
        IF b = bucket
        THEN (IF bucket \in DOMAIN m THEN m[bucket] ELSE 0) + 1
        ELSE m[b]]

\* record with floor bucketing: the bucket is the lower bound of the range.
SummaryHistogram_record_floor(h, latency) ==
    IF ~is_none(h.precision)
    THEN
        IF unwrap(h.precision) = 0
        THEN [self |-> h, ret |-> Panic("attempt to divide by zero")]
        ELSE
            LET divisor == latency \div unwrap(h.precision)
                bucket == divisor * unwrap(h.precision)
            IN  [self |-> [h EXCEPT !.map = entry_increment(h.map, bucket),
                                    !.count = h.count + 1],
                 ret |-> Ok(<<>>)]
    ELSE [self |-> [h EXCEPT !.map = entry_increment(h.map, latency),
                             !.count = h.count + 1],
          ret |-> Ok(<<>>)]

\* SummaryHistogram::record: the histogram afterwards, and Ok or the panic
\* of the division by a zero precision.
SummaryHistogram_record(h, latency) ==
    IF ~is_none(h.precision)
    THEN
        IF unwrap(h.precision) = 0
        THEN [self |-> h, ret |-> Panic("attempt to divide by zero")]
        ELSE
            LET divisor == latency \div unwrap(h.precision)
                bucket == (divisor + 1) * unwrap(h.precision)
            IN  [self |-> [h EXCEPT !.map = entry_increment(h.map, bucket),
                                    !.count = h.count + 1],
                 ret |-> Ok(<<>>)]
    ELSE [self |-> [h EXCEPT !.map = entry_increment(h.map, latency),
                             !.count = h.count + 1],
          ret |-> Ok(<<>>)]

\* The loop of from_manual over the latencies still to record.
RECURSIVE from_manual_loop(_, _)
from_manual_loop(h, lats) ==
    IF lats = <<>>
    THEN Ok(h)
    ELSE
        LET r == SummaryHistogram_record(h, Head(lats))
        IN  IF r.ret.status # "Ok" THEN r.ret ELSE from_manual_loop(r.self, Tail(lats))

from_manual(precision, manual_hist) ==
    from_manual_loop([SummaryHistogram_default EXCEPT !.precision = precision],
                     latencies_vec(manual_hist))

\* a - b on usize: with overflow checks (debug builds) a negative difference
\* panics, without them (release builds) it wraps.
usize_sub(a, b, overflow_checks) ==
    IF a >= b THEN Ok(a - b)
    ELSE IF overflow_checks THEN Panic("attempt to subtract with overflow")
    ELSE Ok(a - b + UsizeMax + 1)

\* `x as usize` of a non-negative f64: saturates at usize::MAX.
as_usize(x) == IF x > UsizeMax THEN UsizeMax ELSE x

\* (rate * n as f64).ceil() and .floor() for a rate num/den >= 0.
ceil_times(rate, n) == (rate.num * n + rate.den - 1) \div rate.den
floor_times(rate, n) == (rate.num * n) \div rate.den

\* SummaryStats::new from the window on: the ids logged and the result.
SummaryStats_window(a, window_seconds, overflow_checks, saturates) ==
    LET start_id == as_usize(ceil_times(a.rate_seconds, a.warmup_time_seconds))
        computed_end_id == as_usize(floor_times(a.rate_seconds, window_seconds))
        last == usize_sub(LatencyMap_len(a.latency_map), 1, overflow_checks)
    IN  IF last.status = "Panic"
        THEN [log |-> None, result |-> last]
        ELSE
            LET end_id == IF computed_end_id > last.value
                          THEN last.value
                          ELSE computed_end_id
                log == Some([start_id |-> start_id, end_id |-> end_id,
                             len |-> LatencyMap_len(a.latency_map)])
                range == histogram_from_id_range(a.latency_map, start_id, end_id,
                                                 a.use_time_window, saturates)
            IN  IF range.status # "Ok"
                THEN [log |-> log, result |-> range]
                ELSE
                    LET summary_histogram ==
                            from_manual(a.histogram_precision, range.value.histogram)
                    IN  IF summary_histogram.status # "Ok"
                        THEN [log |-> log, result |-> summary_histogram]
                        ELSE [log |-> log,
                              result |-> Ok(
                                [histogram |-> summary_histogram.value,
                                 total_objects_sent |-> range.value.num_sent,
                                 total_objects_recv |-> range.value.num_received,
                                 send_time |-> range.value.sent_time,
                                 receive_time |-> range.value.received_time])]

\* SummaryStats::new: what it logs ("Start ID: .., End ID: .., map len: ..",
\* None when it returns before the window is computed) and what it returns.
SummaryStats_new(a, overflow_checks, saturates) ==
    LET window == usize_sub(a.exp_time_seconds, a.cooldown_time_seconds,
                            overflow_checks)
    IN  IF window.status = "Panic"
        THEN [log |-> None, result |-> window]
        ELSE IF a.warmup_time_seconds > window.value
        THEN [log |-> None,
              result |-> Err("Warmup time must be less than experiment time - cooldown time")]
        ELSE SummaryStats_window(a, window.value, overflow_checks, saturates)

(***************************************************************************)
(* The tickers of src/src/lib.rs.  A sampled interarrival is the u64 the   *)
(* sample of the exponential distribution was cast to; mean_ns and the log *)
(* id feed only the log lines.  Poll<T> is Pending or Ready(x).            *)
(***************************************************************************)
Pending == [poll |-> "Pending"]
Ready(x) == [poll |-> "Ready", output |-> x]

\* Poll::map(Some): a resolved future is one more item of the stream.
map_Some(p) == IF p.poll = "Ready" THEN Ready(Some(p.output)) ELSE p

\* Below this many nanoseconds the TimerTicker resolves without a timer.
TimerFloor == 100

\* The one-shot timer of async_timer, as TimerTicker uses it: constructed
\* with a timeout ("Init"), armed by restart ("Armed"), and expired once the
\* operating system's timer has gone off ("Fired").
Timer_new(d) == [state |-> "Init", timeout |-> d]

Timer_restart(t, new_value) == [state |-> "Armed", timeout |-> new_value]

Timer_poll(t) == IF t.state = "Fired" THEN Ready("()") ELSE Pending

TimerTicker_new(d) ==
    [should_restart |-> TRUE, curr_timer |-> Timer_new(d), mean_ns |-> d]

\* A match on the timer's poll that leaves should_restart as it is.
TimerTicker_match_kept(this, p) == this

\* The match on the timer's poll: Ready sets should_restart.
TimerTicker_match(this, p) ==
    IF p.poll = "Ready" THEN [this EXCEPT !.should_restart = TRUE] ELSE this

\* <TimerTicker as Future>::poll.  next_interarrival_ns is what the sample
\* gives when one is drawn; expires tells whether a timer armed by this poll
\* has already gone off when the same poll reaches it.  Beside the ticker
\* and the returned Poll, the result tells what the poll did: the interval
\* it sampled, if any, and whether it restarted the timer.
TimerTicker_poll(this, next_interarrival_ns, expires) ==
    IF this.should_restart /\ next_interarrival_ns < TimerFloor
    THEN [this |-> [this EXCEPT !.should_restart = TRUE],
          ret |-> Ready("()"),
          sampled |-> Some(next_interarrival_ns), restarted |-> FALSE]
    ELSE LET t == Timer_restart(this.curr_timer, next_interarrival_ns)
             armed == [this EXCEPT
                          !.curr_timer = IF expires
                                         THEN [t EXCEPT !.state = "Fired"]
                                         ELSE t,
                          !.should_restart = FALSE]
             polled == IF this.should_restart THEN armed ELSE this
             p == Timer_poll(polled.curr_timer)
         IN  [this |-> TimerTicker_match(polled, p),
              ret |-> p,
              sampled |-> IF this.should_restart
                          THEN Some(next_interarrival_ns) ELSE None,
              restarted |-> this.should_restart]

\* <TimerTicker as Stream>::poll_next.
TimerTicker_poll_next(this, next_interarrival_ns, expires) ==
    LET r == TimerTicker_poll(this, next_interarrival_ns, expires)
    IN  [r EXCEPT !.ret = map_Some(r.ret)]

\* Below this many nanoseconds the SpinTimer waits this long instead.
SpinFloor == 100

SpinTimer_new(d) == [mean_ns |-> d]

\* SpinTimer::wait, called when the clock reads `at`: the future it returns
\* spins until next_time.
SpinTimer_wait(self, sample, at) ==
    LET next_interarrival_ns == IF sample < SpinFloor THEN SpinFloor ELSE sample
    IN  [next_time |-> at + next_interarrival_ns]

\* One poll of that future when the clock reads `at`: one test of the loop.
SpinTimer_future_poll(fut, at) ==
    IF at < fut.next_time THEN Pending ELSE Ready("()")

SpinTicker_new(d) == [timer |-> SpinTimer_new(d), fut |-> None]

\* <SpinTicker as Future>::poll.  The clock reads at_wait when wait() is
\* called and at_poll when the future is polled; sample is what the
\* distribution gives when wait() is called.
SpinTicker_poll(self, sample, at_wait, at_poll) ==
    LET fut == IF self.fut = None
               THEN Some(SpinTimer_wait(self.timer, sample, at_wait))
               ELSE self.fut
        p == SpinTimer_future_poll(unwrap(fut), at_poll)
    IN  [self |-> [self EXCEPT !.fut = IF p.poll = "Ready" THEN None ELSE fut],
         ret |-> p,
         waited |-> self.fut = None,
         next_time |-> unwrap(fut).next_time]

\* <SpinTicker as Stream>::poll_next.
SpinTicker_poll_next(self, sample, at_wait, at_poll) ==
    LET r == SpinTicker_poll(self, sample, at_wait, at_poll)
    IN  [r EXCEPT !.ret = map_Some(r.ret)]

(***************************************************************************)
(* The request schedule of src/src/requests.rs.  An f64 is infinity or a   *)
(* fraction num / den, kept exactly.                                       *)
(***************************************************************************)
NanosPerSec == 1000000000

\* u64::MAX, which `as u64` gives for an infinite f64.  It stands here as
\* the largest integer the checker has, above every other value of the model.
U64Max == 2147483647

PosInf == [inf |-> TRUE]
Finite(num, den) == [inf |-> FALSE, num |-> num, den |-> den]

\* x as u64: truncated, and saturated for infinity.
f64_as_u64(x) == IF x.inf THEN U64Max ELSE x.num \div x.den

\* 1.0 / l for an l above zero.
f64_recip(l) == IF l.inf THEN Finite(0, 1) ELSE Finite(l.den, l.num)

rate_pps_to_interarrival_nanos(rate) ==
    IF rate = 0 THEN PosInf ELSE Finite(NanosPerSec, rate)

PacketDistribution_new(typ, rate_pps) ==
    LET interarrival_nanos == rate_pps_to_interarrival_nanos(rate_pps)
    IN  IF typ = "Uniform"
        THEN Ok([typ |-> "Uniform", x |-> f64_as_u64(interarrival_nanos)])
        ELSE Ok([typ |-> "Exponential", x |-> interarrival_nanos])

get_interarrival_avg(self) ==
    IF self.typ = "Uniform" THEN self.x ELSE f64_as_u64(self.x)

\* PacketDistribution::sample.  drawn is what the random draw gives, as u64.
\* Exp::new(0.0) is an error in rand_distr before 0.4 and a distribution
\* whose samples are the draw times infinity since; accepts_zero is the one
\* the build has.
PacketDistribution_sample(self, drawn, accepts_zero) ==
    IF self.typ = "Uniform" THEN Ok(self.x)
    ELSE LET lambda == f64_recip(self.x)
         IN  IF lambda.num > 0 THEN Ok(drawn)
             ELSE IF accepts_zero
                  THEN Ok(IF drawn = 0 THEN 0 ELSE U64Max)
                  ELSE Panic("Not able to make exponential distribution")

\* RequestSchedule::new.  draws are the random draws of the loop, in order.
RequestSchedule_new(num_requests, rate_pps, dist_type, draws, accepts_zero) ==
    LET distribution == PacketDistribution_new(dist_type, rate_pps)
        samples == [i \in 1..num_requests |->
                       PacketDistribution_sample(distribution.value, draws[i],
                                                 accepts_zero)]
    IN  IF distribution.status # "Ok"
        THEN Err("Failed to initialize distribution")
        ELSE IF \E i \in 1..num_requests : samples[i].status = "Panic"
        THEN Panic("Not able to make exponential distribution")
        ELSE Ok([interarrivals |-> [i \in 1..num_requests |-> samples[i].value],
                 avg_interarrival |-> get_interarrival_avg(distribution.value)])

RequestSchedule_get_avg_interarrival(self) == self.avg_interarrival

RequestSchedule_len(self) == Len(self.interarrivals)

RequestSchedule_get(self, idx) == self.interarrivals[idx + 1]

(***************************************************************************)
(* Each specification below exercises one object; the others stay as       *)
(* constructed.                                                            *)
(***************************************************************************)
IdleMap ==
    /\ map = LatencyMap_new
    /\ ret = NoCall

IdleHist ==
    /\ hist = ManualHistogram_new(0)
    /\ hret = NoCall

IdleSummary ==
    /\ summary = SummaryHistogram_default
    /\ sret = NoCall

IdleStats ==
    /\ args = <<>>
    /\ stats = NoCall

IdleTicker ==
    /\ ticker = TimerTicker_new(TimerFloor)
    /\ tret = NoCall

IdleSpin ==
    /\ spin = SpinTicker_new(SpinFloor)
    /\ now = 0
    /\ lateness = 0
    /\ pret = NoCall

IdleSchedule ==
    /\ rargs = <<>>
    /\ schedule = NoCall

(***************************************************************************)
(* The latency map as a state machine: built by new or by                  *)
(* from_sent_and_recv_times, then mutated by record.                       *)
(***************************************************************************)
\* What the two constructors build over the request ids `ids`.
LatencyMaps(ids) ==
    {LatencyMap_new}
        \cup {from_sent_and_recv_times(st, rt) :
                  st \in HashMaps(ids), rt \in HashMaps(ids)}

InitMap ==
    /\ map \in LatencyMaps(RecordIds)
    /\ ret = NoCall
    /\ IdleHist /\ IdleSummary /\ IdleStats
    /\ IdleTicker /\ IdleSpin /\ IdleSchedule

Record(request_id, start, end) ==
    LET r == LatencyMap_record(map, request_id, start, end)
    IN  /\ map' = r.map
        /\ ret' = r.ret
        /\ UNCHANGED <<hist, hret, summary, sret, args, stats,
                       ticker, tret, spin, now, lateness, pret, rargs, schedule>>

NextMap ==
    \E request_id \in RecordIds, start \in Time, end \in OptTime :
        Record(request_id, start, end)

SpecMap == InitMap /\ [][NextMap]_vars

(***************************************************************************)
(* histogram_from_id_range applied once to a latency map.                  *)
(***************************************************************************)
Called == "op" \in DOMAIN ret

InitRange ==
    /\ map \in LatencyMaps(Ids)
    /\ ret = NoCall
    /\ IdleHist /\ IdleSummary /\ IdleStats
    /\ IdleTicker /\ IdleSpin /\ IdleSchedule

HistogramFromIdRange(start_id, end_id, use_time_window, saturates) ==
    /\ ~Called
    /\ ret' = [op |-> "histogram_from_id_range",
               start_id |-> start_id,
               end_id |-> end_id,
               use_time_window |-> use_time_window,
               result |-> histogram_from_id_range(map, start_id, end_id,
                                                  use_time_window, saturates)]
    /\ UNCHANGED <<map, hist, hret, summary, sret, args, stats,
                   ticker, tret, spin, now, lateness, pret, rargs, schedule>>

NextRange ==
    \E start_id \in Ids, end_id \in Ids, use_time_window \in BOOLEAN,
       saturates \in BOOLEAN :
        HistogramFromIdRange(start_id, end_id, use_time_window, saturates)

SpecRange == InitRange /\ [][NextRange]_vars

(***************************************************************************)
(* A ManualHistogram as a state machine: built by new or new_from_vec,     *)
(* then record, sort and the queries in any order.                         *)
(***************************************************************************)
\* Vec<u64> values of at most n samples.
Vecs(n) == UNION {[1..k -> Latencies] : k \in 0..n}

\* The quantiles k/m of m regular steps from 0 to 1, both ends included.
Quantiles == {q \in [num : 0..MaxSteps, den : 1..MaxSteps] : q.num <= q.den}

InitHist ==
    /\ hist \in {ManualHistogram_new(n) : n \in 0..MaxCount}
                    \cup {ManualHistogram_new_from_vec(v) : v \in Vecs(MaxCount)}
    /\ hret = NoCall
    /\ IdleMap /\ IdleSummary /\ IdleStats
    /\ IdleTicker /\ IdleSpin /\ IdleSchedule

HistRecord(val) ==
    /\ ManualHistogram_len(hist) < MaxCount
    /\ hist' = ManualHistogram_record(hist, val)
    /\ hret' = [op |-> "record"]
    /\ UNCHANGED <<map, ret, summary, sret, args, stats,
                   ticker, tret, spin, now, lateness, pret, rargs, schedule>>

HistSort ==
    /\ hist' = ManualHistogram_sort(hist)
    /\ hret' = [op |-> "sort", result |-> Ok(<<>>)]
    /\ UNCHANGED <<map, ret, summary, sret, args, stats,
                   ticker, tret, spin, now, lateness, pret, rargs, schedule>>

HistValueAtQuantile(quantile) ==
    /\ hret' = [op |-> "value_at_quantile",
                quantile |-> quantile,
                result |-> ManualHistogram_value_at_quantile(hist, quantile)]
    /\ UNCHANGED <<map, ret, hist, summary, sret, args, stats,
                   ticker, tret, spin, now, lateness, pret, rargs, schedule>>

HistMean ==
    /\ hret' = [op |-> "mean", result |-> ManualHistogram_mean(hist)]
    /\ UNCHANGED <<map, ret, hist, summary, sret, args, stats,
                   ticker, tret, spin, now, lateness, pret, rargs, schedule>>

HistMax ==
    /\ hret' = [op |-> "max", result |-> ManualHistogram_max(hist)]
    /\ UNCHANGED <<map, ret, hist, summary, sret, args, stats,
                   ticker, tret, spin, now, lateness, pret, rargs, schedule>>

HistMin ==
    /\ hret' = [op |-> "min", result |-> ManualHistogram_min(hist)]
    /\ UNCHANGED <<map, ret, hist, summary, sret, args, stats,
                   ticker, tret, spin, now, lateness, pret, rargs, schedule>>

NextHist ==
    \/ \E val \in Latencies : HistRecord(val)
    \/ HistSort
    \/ \E quantile \in Quantiles : HistValueAtQuantile(quantile)
    \/ HistMean
    \/ HistMax
    \/ HistMin

SpecHist == InitHist /\ [][NextHist]_vars

(***************************************************************************)
(* A SummaryHistogram as a state machine: default with a precision set,    *)
(* then record.                                                            *)
(***************************************************************************)
Precisions == {None} \cup {Some(p) : p \in 0..MaxPrecision}

InitSummary ==
    /\ summary \in {[SummaryHistogram_default EXCEPT !.precision = p] :
                       p \in Precisions}
    /\ sret = NoCall
    /\ IdleMap /\ IdleHist /\ IdleStats
    /\ IdleTicker /\ IdleSpin /\ IdleSchedule

SummaryRecord(latency) ==
    /\ summary.count < MaxCount
    /\ LET r == SummaryHistogram_record(summary, latency)
       IN  /\ summary' = r.self
           /\ sret' = [op |-> "record", latency |-> latency, result |-> r.ret]
    /\ UNCHANGED <<map, ret, hist, hret, args, stats,
                   ticker, tret, spin, now, lateness, pret, rargs, schedule>>

NextSummary == \E latency \in Latencies : SummaryRecord(latency)

SpecSummary == InitSummary /\ [][NextSummary]_vars

(***************************************************************************)
(* SummaryStats::new applied once to its arguments.                        *)
(***************************************************************************)
\* Latency maps of requests 0..n-1 sent in id order, each dropped or
\* received at or after its send time: what a run records.
RECURSIVE RunMaps(_)
RunMaps(n) ==
    IF n = 0
    THEN {LatencyMap_new}
    ELSE
        LET sent == IF n - 1 > MaxTime THEN MaxTime ELSE n - 1
        IN  {LatencyMap_record(m, n - 1, sent, end).map :
                m \in RunMaps(n - 1),
                end \in {None} \cup {Some(t) : t \in sent..MaxTime}}

Rates == [num : 0..MaxRateHalves, den : {2}]

InitStats ==
    /\ args \in [rate_seconds : Rates,
                 exp_time_seconds : 0..MaxSeconds,
                 latency_map : UNION {RunMaps(n) : n \in 0..(MaxId + 1)},
                 warmup_time_seconds : 0..MaxSeconds,
                 cooldown_time_seconds : 0..MaxSeconds,
                 use_time_window : BOOLEAN,
                 histogram_precision : Precisions]
    /\ stats = NoCall
    /\ IdleMap /\ IdleHist /\ IdleSummary
    /\ IdleTicker /\ IdleSpin /\ IdleSchedule

New(overflow_checks, saturates) ==
    /\ stats = NoCall
    /\ stats' = SummaryStats_new(args, overflow_checks, saturates)
    /\ UNCHANGED <<map, ret, hist, hret, summary, sret, args,
                   ticker, tret, spin, now, lateness, pret, rargs, schedule>>

NextStats == \E overflow_checks \in BOOLEAN, saturates \in BOOLEAN :
    New(overflow_checks, saturates)

SpecStats == InitStats /\ [][NextStats]_vars

(***************************************************************************)
(* A TimerTicker as a state machine: built by new, polled as a stream by   *)
(* its task, while the operating system's timer goes off when it will.     *)
(***************************************************************************)
\* Intervals a sample may give: some below the floor, some at or above it.
TimerSamples ==
    {0, TimerFloor - 1} \cup {k * TimerFloor : k \in 1..MaxInterval}

TimerMeans == {k * TimerFloor : k \in 1..MaxMean}

InitTimer ==
    /\ ticker \in {TimerTicker_new(d) : d \in TimerMeans}
    /\ tret = NoCall
    /\ IdleMap /\ IdleHist /\ IdleSummary /\ IdleStats
    /\ IdleSpin /\ IdleSchedule

TimerPollNext(next_interarrival_ns, expires) ==
    LET r == TimerTicker_poll_next(ticker, next_interarrival_ns, expires)
    IN  /\ ticker' = r.this
        /\ tret' = [op |-> "poll_next", should_restart |-> ticker.should_restart,
                    ret |-> r.ret, sampled |-> r.sampled,
                    restarted |-> r.restarted]
        /\ UNCHANGED <<map, ret, hist, hret, summary, sret, args, stats,
                       spin, now, lateness, pret, rargs, schedule>>

\* The armed timer goes off.
TimerFires ==
    /\ ticker.curr_timer.state = "Armed"
    /\ ticker' = [ticker EXCEPT !.curr_timer.state = "Fired"]
    /\ UNCHANGED <<map, ret, hist, hret, summary, sret, args, stats,
                   tret, spin, now, lateness, pret, rargs, schedule>>

TimerPolled ==
    \E next_interarrival_ns \in TimerSamples, expires \in BOOLEAN :
        TimerPollNext(next_interarrival_ns, expires)

NextTimer ==
    \/ TimerPolled
    \/ TimerFires

SpecTimer == InitTimer /\ [][NextTimer]_vars

\* The task awaiting the ticker polls it again and again, and an armed timer
\* goes off in the end.
SpecTimerFair == SpecTimer /\ WF_vars(TimerPolled) /\ WF_vars(TimerFires)

(***************************************************************************)
(* A SpinTicker as a state machine: built by new, polled as a stream by    *)
(* its task, while the wall clock moves on.                                *)
(***************************************************************************)
SpinSamples ==
    {0, SpinFloor - 1} \cup {k * SpinFloor : k \in 1..MaxInterval}

SpinMeans == {k * SpinFloor : k \in 1..MaxMean}

\* The clock stops at this instant.
EndOfTime == MaxClock * SpinFloor

InitSpin ==
    /\ spin \in {SpinTicker_new(d) : d \in SpinMeans}
    /\ now = 0
    /\ lateness = 0
    /\ pret = NoCall
    /\ IdleMap /\ IdleHist /\ IdleSummary /\ IdleStats
    /\ IdleTicker /\ IdleSchedule

\* One poll_next.  Time may pass between the clock reading of wait() and
\* that of the future's first poll.  When the tick resolves, the time by
\* which it is late adds to lateness.  pret keeps, beside what the poll
\* returned, when wait() was called for the tick and the interval sampled.
SpinPollNext(sample, elapsed) ==
    LET r == SpinTicker_poll_next(spin, sample, now, now + elapsed)
    IN  /\ now + elapsed <= EndOfTime
        /\ ~r.waited => elapsed = 0
        /\ spin' = r.self
        /\ now' = now + elapsed
        /\ lateness' = IF r.ret.poll = "Ready"
                       THEN lateness + (now' - r.next_time)
                       ELSE lateness
        /\ pret' = [op |-> "poll_next", ret |-> r.ret, waited |-> r.waited,
                    at |-> IF r.waited THEN now ELSE pret.at,
                    interval |-> IF r.waited THEN sample ELSE pret.interval,
                    next_time |-> r.next_time,
                    polled_at |-> now', deficit |-> lateness]
        /\ UNCHANGED <<map, ret, hist, hret, summary, sret, args, stats,
                       ticker, tret, rargs, schedule>>

\* The wall clock moves on.
Advance ==
    /\ now + SpinFloor <= EndOfTime
    /\ now' = now + SpinFloor
    /\ UNCHANGED <<map, ret, hist, hret, summary, sret, args, stats,
                   ticker, tret, spin, lateness, pret, rargs, schedule>>

NextSpin ==
    \/ \E sample \in SpinSamples, elapsed \in {0, SpinFloor} :
           SpinPollNext(sample, elapsed)
    \/ Advance

SpecSpin == InitSpin /\ [][NextSpin]_vars

(***************************************************************************)
(* RequestSchedule::new as a function of its arguments and of the random   *)
(* draws it makes.                                                         *)
(***************************************************************************)
DistributionType == {"Uniform", "Exponential"}

\* What a draw of the exponential distribution may give, as u64.
Draws == 0..MaxInterval

DrawsOf(n) == [1..n -> Draws]

InitSchedule ==
    /\ rargs \in [num_requests : 0..MaxCount,
                  rate_pps : 0..MaxRatePps,
                  dist_type : DistributionType]
    /\ schedule = NoCall
    /\ IdleMap /\ IdleHist /\ IdleSummary /\ IdleStats
    /\ IdleTicker /\ IdleSpin

ScheduleNew(draws, accepts_zero) ==
    /\ schedule = NoCall
    /\ schedule' = RequestSchedule_new(rargs.num_requests, rargs.rate_pps,
                                       rargs.dist_type, draws, accepts_zero)
    /\ UNCHANGED <<map, ret, hist, hret, summary, sret, args, stats,
                   ticker, tret, spin, now, lateness, pret, rargs>>

NextSchedule ==
    \E draws \in DrawsOf(rargs.num_requests), accepts_zero \in BOOLEAN :
        ScheduleNew(draws, accepts_zero)

SpecSchedule == InitSchedule /\ [][NextSchedule]_vars

(***************************************************************************)
(* Properties of the latency map.                                          *)
(***************************************************************************)
Received(m, id) == ~is_none(m[id].recv)
RecvTime(m, id) == unwrap(m[id].recv)

\* C1: in every reachable LatencyMap, every entry whose received time is
\* present has received >= sent.
C1_ReceivedNotBeforeSent ==
    \A id \in DOMAIN map : Received(map, id) => RecvTime(map, id) >= map[id].sent

\* C2: record(id, sent, Some(received)) with received < sent returns an error
\* and leaves the map unchanged (len() and get() as before); otherwise it
\* succeeds, get(id) afterwards is exactly (sent, received), and no other
\* entry changes.
C2_RecordContract ==
    [][\A request_id \in RecordIds, start \in Time, end \in OptTime :
            Record(request_id, start, end) =>
                IF ~is_none(end) /\ unwrap(end) < start
                THEN /\ ret'.status = "Err"
                     /\ map' = map
                     /\ LatencyMap_len(map') = LatencyMap_len(map)
                     /\ LatencyMap_get(map', request_id)
                            = LatencyMap_get(map, request_id)
                ELSE /\ ret'.status = "Ok"
                     /\ LatencyMap_get(map', request_id)
                            = Some([sent |-> start, recv |-> end])
                     /\ \A other \in RecordIds \ {request_id} :
                            LatencyMap_get(map', other) = LatencyMap_get(map, other)
      ]_vars

\* A record call was refused on a map that holds entries.
C2_Witness ==
    /\ ret.status = "Err"
    /\ LatencyMap_len(map) > 0

\* start_id has a receive time and end_id = start_id + 1 was recorded as
\* dropped, and histogram_from_id_range(start_id, end_id, _) was called.
C3_Case ==
    /\ Called
    /\ ret.end_id = ret.start_id + 1
    /\ ret.start_id \in DOMAIN map
    /\ ret.end_id \in DOMAIN map
    /\ Received(map, ret.start_id)
    /\ ~Received(map, ret.end_id)

\* C3 as stated: in that case the id window fails (end_id has no receive
\* time) while the time window succeeds without counting end_id.
C3_IdWindowFailsOnDroppedEnd ==
    C3_Case =>
        IF ret.use_time_window
        THEN /\ ret.result.status = "Ok"
             /\ ret.result.value.num_received <= 1
        ELSE ret.result.status # "Ok"

\* C3 as amended: the id window never examines end_id, so in that case it
\* succeeds, with one request sent and one received, exactly when end_id was
\* sent no earlier than start_id and start_id was not received before it was
\* sent; the time window returns an error only when end_id was sent before
\* start_id, and when it succeeds it counts start_id alone, and only if
\* start_id was received by the time end_id was sent.
C3_DroppedEndIsOutsideTheIdWindow ==
    C3_Case =>
        LET s == ret.start_id
            e == ret.end_id
            r == ret.result
        IN  IF ret.use_time_window
            THEN /\ r.status = "Err" <=> map[e].sent < map[s].sent
                 /\ r.status = "Panic" => RecvTime(map, s) < map[s].sent
                 /\ r.status = "Ok" =>
                        /\ r.value.num_sent = 2
                        /\ r.value.num_received
                               = IF RecvTime(map, s) <= map[e].sent THEN 1 ELSE 0
                        /\ ManualHistogram_len(r.value.histogram)
                               = r.value.num_received
            ELSE /\ r.status = "Ok" <=>
                        /\ map[e].sent >= map[s].sent
                        /\ RecvTime(map, s) >= map[s].sent
                 /\ r.status = "Ok" =>
                        /\ r.value.num_sent = 1
                        /\ r.value.num_received = 1
                        /\ latencies_vec(r.value.histogram)
                               = <<RecvTime(map, s) - map[s].sent>>

\* The id window succeeded although end_id was dropped.
C3_Witness ==
    /\ C3_Case
    /\ ~ret.use_time_window
    /\ ret.result.status = "Ok"

\* The ids of [start_id, end_id) and the latency the code records for one.
Window(s, e) == {id \in Ids : s <= id /\ id < e}
Latency(m, id) ==
    IF RecvTime(m, id) >= m[id].sent THEN RecvTime(m, id) - m[id].sent ELSE 0

\* The k-th smallest id of S.
KthId(S, k) == CHOOSE id \in S : Cardinality({j \in S : j < id}) = k - 1

\* The histogram holds exactly the latencies of the ids of S, in id order.
HoldsLatenciesOf(histogram, m, S) ==
    /\ ManualHistogram_len(histogram) = Cardinality(S)
    /\ \A k \in 1..Cardinality(S) :
           latencies_vec(histogram)[k] = Latency(m, KthId(S, k))

\* histogram_from_id_range(start_id, end_id, false) was called with
\* start_id < end_id and both ids in the map.
C4_Case ==
    /\ Called
    /\ ~ret.use_time_window
    /\ ret.start_id < ret.end_id
    /\ ret.start_id \in DOMAIN map
    /\ ret.end_id \in DOMAIN map

MissingInWindow(m, s, e) ==
    \E id \in Window(s, e) : id \notin DOMAIN m \/ ~Received(m, id)

\* C4 as stated: the id window fails if an id of [start_id, end_id) is
\* absent or has no receive time; otherwise it succeeds with one latency per
\* id and sent-count = received-count = histogram length = end_id - start_id.
C4_IdWindowSucceedsUnlessMissing ==
    C4_Case =>
        LET s == ret.start_id
            e == ret.end_id
            r == ret.result
        IN  IF MissingInWindow(map, s, e)
            THEN r.status # "Ok"
            ELSE /\ r.status = "Ok"
                 /\ HoldsLatenciesOf(r.value.histogram, map, Window(s, e))
                 /\ r.value.num_sent = e - s
                 /\ r.value.num_received = e - s

\* C4 as amended: the id window also fails when end_id was sent before
\* start_id or an id of the range was received before start_id was sent, and
\* it can only panic on an entry received before it was sent; apart from
\* these it succeeds, and every success has one latency per id of the range
\* and sent-count = received-count = histogram length = end_id - start_id.
C4_IdWindowContract ==
    C4_Case =>
        LET s == ret.start_id
            e == ret.end_id
            r == ret.result
            W == Window(s, e)
            Rejected ==
                \/ MissingInWindow(map, s, e)
                \/ map[e].sent < map[s].sent
                \/ \E id \in W : RecvTime(map, id) < map[s].sent
        IN  /\ Rejected => r.status # "Ok"
            /\ r.status = "Panic" =>
                   \E id \in W : Received(map, id) /\ RecvTime(map, id) < map[id].sent
            /\ (~Rejected /\ \A id \in W : RecvTime(map, id) >= map[id].sent)
                   => r.status = "Ok"
            /\ r.status = "Ok" =>
                   /\ HoldsLatenciesOf(r.value.histogram, map, W)
                   /\ r.value.num_sent = e - s
                   /\ r.value.num_received = e - s

\* The id window refused a range with no id missing and none dropped.
C4_Witness ==
    /\ C4_Case
    /\ ~MissingInWindow(map, ret.start_id, ret.end_id)
    /\ ret.result.status = "Err"

\* histogram_from_id_range(start_id, end_id, true) was called with
\* start_id < end_id and every id of the range in the map.
C5_Case ==
    /\ Called
    /\ ret.use_time_window
    /\ ret.start_id < ret.end_id
    /\ \A id \in ret.start_id..ret.end_id : id \in DOMAIN map

\* The requests the time window counts as received.
Counted(m, s, e) ==
    {id \in Window(s, e) : Received(m, id) /\ RecvTime(m, id) <= m[e].sent}

\* C5: the time window never fails because of drops or late arrivals (it
\* returns an error only when end_id was sent before start_id, and can only
\* panic on a counted entry received before it was sent); a request is in the
\* histogram and counted as received iff its id is in [start_id, end_id), it
\* has a receive time and that time is no later than the send time of end_id;
\* received-count = histogram length, sent-count = end_id - start_id + 1, so
\* received-count <= sent-count - 1.
C5_TimeWindowContract ==
    C5_Case =>
        LET s == ret.start_id
            e == ret.end_id
            r == ret.result
            C == Counted(map, s, e)
        IN  /\ r.status = "Err" <=> map[e].sent < map[s].sent
            /\ r.status = "Panic" =>
                   \E id \in C : RecvTime(map, id) < map[id].sent
            /\ (map[e].sent >= map[s].sent
                    /\ \A id \in C : RecvTime(map, id) >= map[id].sent)
                   => r.status = "Ok"
            /\ r.status = "Ok" =>
                   /\ HoldsLatenciesOf(r.value.histogram, map, C)
                   /\ r.value.num_received = Cardinality(C)
                   /\ r.value.num_received = ManualHistogram_len(r.value.histogram)
                   /\ r.value.num_sent = e - s + 1
                   /\ r.value.num_received <= r.value.num_sent - 1

\* The time window succeeded over a range holding a request that was dropped
\* or arrived late, and counted another one.
C5_Witness ==
    /\ C5_Case
    /\ ret.result.status = "Ok"
    /\ \E id \in Window(ret.start_id, ret.end_id) :
           \/ ~Received(map, id)
           \/ RecvTime(map, id) > map[ret.end_id].sent
    /\ ret.result.value.num_received > 0

(***************************************************************************)
(* Properties of the ManualHistogram.                                      *)
(***************************************************************************)
HistCalled(op) == "op" \in DOMAIN hret /\ hret.op = op

\* n >= 1 latencies were recorded, sort was called, and then
\* value_at_quantile(q) with q = k/m, 0 <= k <= m.
C8_Case ==
    /\ HistCalled("value_at_quantile")
    /\ hist.is_sorted
    /\ ManualHistogram_len(hist) >= 1
    /\ hist.sorted_latencies = sort(latencies_vec(hist))

\* C8: in that case value_at_quantile(q) succeeds for every q = k/m with
\* k = 0..m, returns the element at index floor(n * q) of the sorted
\* latencies, which lies in [min, max] and is the minimum for q = 0, and the
\* values are non-decreasing in q.
C8_QuantilesSucceedOnZeroToOne ==
    C8_Case =>
        LET q == hret.quantile
            r == hret.result
            n == ManualHistogram_len(hist)
            sorted == sort(latencies_vec(hist))
        IN  /\ r.status = "Ok"
            /\ r.value = sorted[((n * q.num) \div q.den) + 1]
            /\ sorted[1] <= r.value /\ r.value <= sorted[n]
            /\ q.num = 0 => r.value = ManualHistogram_min(hist).value
            /\ \A q2 \in Quantiles :
                   q2.num * q.den <= q.num * q2.den =>
                       LET r2 == ManualHistogram_value_at_quantile(hist, q2)
                       IN  r2.status = "Ok" /\ r2.value <= r.value

Queries == {"value_at_quantile", "mean", "max", "min"}

\* C9: as long as sort has never been called (is_sorted is false),
\* value_at_quantile(q) returns an error for every q, and so do mean, min
\* and max.
C9_QueriesFailBeforeSort ==
    ("op" \in DOMAIN hret /\ hret.op \in Queries /\ ~hist.is_sorted)
        => hret.result.status = "Err"

\* value_at_quantile was refused on an unsorted histogram that holds samples.
C9_Witness ==
    /\ HistCalled("value_at_quantile")
    /\ ~hist.is_sorted
    /\ ManualHistogram_len(hist) > 0
    /\ hret.result.status = "Err"

(***************************************************************************)
(* Properties of SummaryStats::new.                                        *)
(***************************************************************************)
StatsCalled == stats # NoCall

\* SummaryStats::new was called with warmup > experiment - cooldown, the
\* difference taken over the integers (negative when cooldown > experiment).
C6_Case ==
    /\ StatsCalled
    /\ args.warmup_time_seconds
           > args.exp_time_seconds - args.cooldown_time_seconds

\* C6: in that case SummaryStats::new returns an error, without panicking
\* and without running the window analysis.
C6_InvalidWindowIsAnError ==
    C6_Case =>
        /\ stats.result.status = "Err"
        /\ stats.log = None

\* SummaryStats::new was called with warmup <= experiment - cooldown and a
\* usable precision.
C7_Case ==
    /\ StatsCalled
    /\ args.warmup_time_seconds
           <= args.exp_time_seconds - args.cooldown_time_seconds
    /\ args.histogram_precision # Some(0)

\* C7: in that case, for every latency map, the empty one included,
\* SummaryStats::new never panics and analyses start_id = ceil(rate * warmup),
\* end_id = min(floor(rate * (experiment - cooldown)), map.len() - 1); it
\* returns the totals of histogram_from_id_range(start_id, end_id,
\* use_time_window), with histogram.count = total_objects_recv, or that
\* call's error.
C7_WindowIsClampedToTheMap ==
    C7_Case =>
        LET len == LatencyMap_len(args.latency_map)
            start_id == ceil_times(args.rate_seconds, args.warmup_time_seconds)
            floor_id == floor_times(args.rate_seconds,
                            args.exp_time_seconds - args.cooldown_time_seconds)
            end_id == IF floor_id > len - 1 THEN len - 1 ELSE floor_id
        IN  /\ stats.result.status # "Panic"
            /\ stats.log = Some([start_id |-> start_id, end_id |-> end_id,
                                 len |-> len])
            /\ \E saturates \in BOOLEAN :
                   LET r == histogram_from_id_range(args.latency_map, start_id,
                                end_id, args.use_time_window, saturates)
                   IN  IF r.status = "Ok"
                       THEN /\ stats.result.status = "Ok"
                            /\ stats.result.value.total_objects_sent
                                   = r.value.num_sent
                            /\ stats.result.value.total_objects_recv
                                   = r.value.num_received
                            /\ stats.result.value.histogram.count
                                   = stats.result.value.total_objects_recv
                       ELSE stats.result = r

(***************************************************************************)
(* Properties of the SummaryHistogram.                                     *)
(***************************************************************************)
Buckets == 0..(MaxLatency + MaxPrecision)

BucketCount(h, b) == IF b \in DOMAIN h.map THEN h.map[b] ELSE 0

RECURSIVE SumOver(_, _)
SumOver(m, keys) ==
    IF keys = {}
    THEN 0
    ELSE LET k == CHOOSE x \in keys : TRUE
         IN  m[k] + SumOver(m, keys \ {k})

SumOfBuckets(h) == SumOver(h.map, DOMAIN h.map)

\* The bucket the contract assigns to a latency.
BucketOf(precision, latency) ==
    IF is_none(precision)
    THEN latency
    ELSE (latency \div unwrap(precision) + 1) * unwrap(precision)

\* C10: record(latency) with a precision p >= 1 increments exactly the bucket
\* (latency div p + 1) * p by one and count by one, and with no precision the
\* bucket keyed by the latency itself; every other bucket is unchanged, and
\* count equals the sum of all bucket counts after every record.
C10_RecordBuckets ==
    [][("op" \in DOMAIN sret'
            /\ (is_none(summary.precision) \/ unwrap(summary.precision) >= 1))
        =>  LET bucket == BucketOf(summary.precision, sret'.latency)
            IN  /\ sret'.result.status = "Ok"
                /\ DOMAIN summary'.map \subseteq Buckets
                /\ \A b \in Buckets :
                       BucketCount(summary', b)
                           = BucketCount(summary, b) + (IF b = bucket THEN 1 ELSE 0)
                /\ summary'.count = summary.count + 1
                /\ summary'.count = SumOfBuckets(summary')
                /\ summary'.precision = summary.precision
      ]_vars

\* A latency equal to the precision p was recorded after another sample and
\* landed in bucket 2p.
C10_Witness ==
    /\ "op" \in DOMAIN sret
    /\ ~is_none(summary.precision)
    /\ unwrap(summary.precision) >= 1
    /\ sret.latency = unwrap(summary.precision)
    /\ BucketCount(summary, 2 * unwrap(summary.precision)) >= 1
    /\ summary.count >= 2

TimerCalled == "op" \in DOMAIN tret

\* C11: over any sequence of polls a TimerTicker is the two-state machine
\* NeedsSample (should_restart) / Waiting: a poll samples an interval, and
\* arms the timer, only when it finds NeedsSample; it returns Ready only when
\* the interval sampled in NeedsSample is below the floor, with no timer
\* armed, or when the armed timer has gone off; after a Ready the state is
\* NeedsSample and after a Pending it is Waiting.
C11_TwoStateMachine ==
    TimerCalled =>
        /\ ~is_none(tret.sampled) <=> tret.should_restart
        /\ tret.restarted => tret.should_restart
        /\ tret.restarted =>
               /\ unwrap(tret.sampled) >= TimerFloor
               /\ ticker.curr_timer.timeout = unwrap(tret.sampled)
        /\ tret.ret.poll = "Ready" =>
               \/ /\ tret.should_restart
                  /\ unwrap(tret.sampled) < TimerFloor
                  /\ ~tret.restarted
               \/ /\ tret.restarted \/ ~tret.should_restart
                  /\ ticker.curr_timer.state = "Fired"
        /\ tret.ret.poll = "Ready" => ticker.should_restart
        /\ tret.ret.poll = "Pending" =>
               /\ ~ticker.should_restart
               /\ ticker.curr_timer.state \in {"Armed", "Fired"}

\* A poll that found the ticker Waiting, its timer gone off, returned Ready
\* and left the ticker in NeedsSample.
C11_Witness ==
    /\ TimerCalled
    /\ ~tret.should_restart
    /\ tret.ret.poll = "Ready"
    /\ ticker.should_restart

SpinCalled == "op" \in DOMAIN pret

\* C12: a poll of the SpinTicker that calls wait() first compares the
\* deficit, the lateness of the earlier ticks that is still owed, with the
\* next interval: when the deficit exceeds the interval, the interval is
\* taken off the deficit and the tick resolves in that poll; otherwise the
\* tick resolves only once the clock has reached the time of wait() plus the
\* interval, and then the overshoot adds to the deficit.
C12_DeficitIsPaidBack ==
    SpinCalled =>
        /\ (pret.waited /\ pret.deficit > pret.interval) =>
               /\ pret.ret.poll = "Ready"
               /\ lateness = pret.deficit - pret.interval
        /\ (pret.ret.poll = "Ready"
                /\ ~(pret.waited /\ pret.deficit > pret.interval)) =>
               /\ pret.polled_at >= pret.next_time
               /\ pret.next_time >= pret.at + pret.interval
               /\ lateness = pret.deficit + (pret.polled_at - pret.next_time)

\* The tick stream has ended: poll_next returned Ready(None).
TimerStreamEnded == TimerCalled /\ tret.ret = Ready(None)

\* C13: a ticker stops producing ticks at a terminal condition: every run of
\* a ticker polled by its task reaches the end of the tick stream, after
\* which no further tick resolves.
C13_TickStreamEnds == <>[]TimerStreamEnded

ScheduleCalled == schedule # NoCall

\* C14: RequestSchedule::new(count, rate, kind) returns an error, neither a
\* schedule nor a panic, when the rate is zero, for both kinds and every
\* count; for a positive rate it returns a schedule of exactly count
\* interarrivals, each of them equal to get_avg_interarrival() when the kind
\* is Uniform.
C14_ZeroRateIsAnError ==
    ScheduleCalled =>
        /\ rargs.rate_pps = 0 => schedule.status = "Err"
        /\ rargs.rate_pps > 0 =>
               /\ schedule.status = "Ok"
               /\ RequestSchedule_len(schedule.value) = rargs.num_requests
               /\ rargs.dist_type = "Uniform" =>
                      \A idx \in 0..(rargs.num_requests - 1) :
                          RequestSchedule_get(schedule.value, idx)
                              = RequestSchedule_get_avg_interarrival(schedule.value)

\* The sorted copy the queries read is the ascending permutation of the
\* active region latencies[0..len()).
SortedCopyIsCurrent(h) ==
    /\ Len(h.sorted_latencies) = ManualHistogram_len(h)
    /\ h.sorted_latencies = sort(latencies_vec(h))

\* C15: under any interleaving of record and sort, is_sorted never goes back
\* from true to false, and whenever is_sorted is true the sorted copy read by
\* value_at_quantile, min and max is the ascending permutation of the active
\* region, values recorded after a sort included.
C15_SortedCopyFollowsRecords ==
    [][/\ hist.is_sorted => hist'.is_sorted
       /\ hist'.is_sorted => SortedCopyIsCurrent(hist')
      ]_vars

====
